---- MODULE Spec2Model ----
(***************************************************************************)
(* Transaction lifecycle of deploy_tools (src/src/deploy_tools/transact.py, *)
(* deploy.py and the commands of cli.py): option building, nonce           *)
(* resolution, local or node-side signing, submission and receipt          *)
(* confirmation, against a node that behaves like the test chain of the    *)
(* repository's tests.                                                     *)
(*                                                                         *)
(* A Python dict is a TLA+ function whose DOMAIN is the set of keys that   *)
(* are present.  Every Python function is an operator that takes the       *)
(* context c (the node's state and the trace of the running call) and      *)
(* returns the new context together with what the function returns,        *)
(* raises, and leaves in the dicts it mutates.                             *)
(***************************************************************************)
EXTENDS Integers, Sequences, FiniteSets, TLC

VARIABLES
    nonces,               \* node: pending transaction count of every account
    receipts,             \* node: receipt of every mined transaction it is asked about
    balances,             \* node: every balance, less what it was when the call began
    transaction_options,  \* the caller's options dict (None before one exists)
    call,                 \* the running or last call: function, arguments, dict on entry
    log,                  \* requests made to the node by that call, in order
    sent,                 \* transactions that call handed to the node, in order
    waited,               \* hashes whose receipt that call waited for, in order
    queried,              \* addresses whose transaction count that call asked for
    result,               \* what the call returned or raised
    pc                    \* "idle": the caller is between calls; "done": a call has ended

vars ==
    <<nonces, receipts, balances, transaction_options, call, log, sent, waited, queried,
      result, pc>>

----------------------------------------------------------------------------
(* Bounds of the model *)

MaxNonce == 2             \* no account sends more than MaxNonce transactions
MaxBulk == 3              \* bulk wait: the transactions asked about, and len(tx_hashs)
MaxIncreases == 3         \* successive calls of increase_transaction_options_nonce

(* Values of the repository's tests, and what the node fills in *)

GasGiven == 123456
GasPriceGiven == 99
ValueGiven == 123
GasEstimate == 21000      \* the node's estimate when the caller gives no gas
NodeGasPrice == 1         \* the node's gas price when the caller gives none
NoStatus == -1            \* receipt.get("status", None) of a receipt without status
Unset == -1               \* None as the value of an optional number

----------------------------------------------------------------------------
(* Dicts *)

EmptyDict == [k \in {} |-> k]
Has(d, k) == k \in DOMAIN d
Put(d, k, v) == (k :> v) @@ d
None == "None" :> TRUE            \* the Python value None where a dict is expected
IsNone(d) == Has(d, "None")

(* Accounts.  accounts is web3.eth.accounts; the key Ki unlocks accounts[i]. *)

accounts == <<"A0", "A1">>
Addresses == {accounts[i] : i \in 1..Len(accounts)}
Keys == {"K0", "K1"}
NoKey == "NoKey"
ContractAddress == "C"
NoAddress == "NoAddress"

from_key(private_key) ==
    [address |-> IF private_key = "K0" THEN accounts[1] ELSE accounts[2],
     key |-> private_key]

(* The dicts a caller can write *)

Part(k, vs) == {EmptyDict} \cup {k :> v : v \in vs}
AllOptions ==
    {f @@ n @@ g @@ p @@ v @@ t :
        f \in Part("from", Addresses), n \in Part("nonce", 0..MaxNonce),
        g \in Part("gas", {GasGiven}), p \in Part("gasPrice", {0, GasPriceGiven}),
        v \in Part("value", {ValueGiven}), t \in Part("to", {accounts[2]})}

(* Function calls: contract.functions.set(..), contract.functions.failingFunction() *)
(* of the test contract, and a contract's constructor, which may revert too.        *)

FunctionCalls ==
    {[name |-> "set", reverts |-> FALSE, address |-> ContractAddress],
     [name |-> "failingFunction", reverts |-> TRUE, address |-> ContractAddress]}
ConstructorCalls ==
    {[name |-> "constructor", reverts |-> r, address |-> NoAddress] : r \in BOOLEAN}

(* The web3 object of a call: its defaultAccount, and how the node will answer: *)
(* the status it reports for a transaction whose code does not revert, and      *)
(* whether a transaction stays pending for longer than the caller waits.        *)

Web3s ==
    [defaultAccount : {NoAddress, accounts[2]},
     status : {0, 1, 2, NoStatus},
     timeout : BOOLEAN]

(* Exceptions *)

NoExc == "none"
ValueErrorFrom == "ValueError: From can not be set in transaction_options if a private key is used"
ValueErrorStatus == "ValueError: Unexpected value for status in the transaction receipt"
ValueErrorTo == "ValueError: Cannot set to in contract call"
ValidationError == "ValidationError: Invalid transaction nonce"
EstimateGasError == "TransactionFailed(eth_tester): estimateGas of a reverting call"
TimeExhausted == "TimeExhausted"
TransactionFailed == "TransactionFailed"
TransactionsFailed == "TransactionsFailed"

(* The exception objects, as far as a caller can read them: args, as Python *)
(* sets it from the arguments of the raise, and the attribute that          *)
(* TransactionsFailed.__init__ sets.  `raise TransactionFailed` has no      *)
(* arguments; the other errors have their message.                          *)
NoError == [none |-> TRUE]
ErrorOf(exc, failed_tx_hashs) ==
    IF exc = NoExc THEN NoError
    ELSE IF exc = TransactionsFailed
    THEN [args |-> <<failed_tx_hashs>>, failed_tx_hashs |-> failed_tx_hashs]
    ELSE IF exc = TransactionFailed THEN [args |-> <<>>]
    ELSE [args |-> <<exc>>]

NoHash == <<>>
NoReceipt == EmptyDict
NoSigned == [rawTransaction |-> EmptyDict, signer |-> NoAddress]

(* The context threaded through a call *)

Bind(v, F(_)) == F(v)             \* F of the value v: "x = v; F(x)"

(* Who holds ether: the accounts and the contract *)
Holders == Addresses \cup {ContractAddress}
NoChange == [a \in Holders |-> 0]

Ctx(n, r) ==
    [nonces |-> n, receipts |-> r, balances |-> NoChange, log |-> <<>>, sent |-> <<>>,
     waited |-> <<>>, queried |-> <<>>]
Logged(c, request) == [c EXCEPT !.log = Append(@, request)]

(* What a function hands back: context, the caller's dict as it leaves it, *)
(* the exception raised (NoExc when it returns), and the value returned.   *)
Out(c, opts, exc, tx_hash, receipt) ==
    [c |-> c, opts |-> opts, exc |-> exc, tx_hash |-> tx_hash, receipt |-> receipt]

----------------------------------------------------------------------------
(* The node, as the tests' chain behaves *)

Reverts(tx) == Has(tx, "data") /\ tx["data"].reverts

TxHash(sender, nonce) == <<sender, nonce>>

MakeReceipt(web3, tx, sender) ==
    LET status == IF Reverts(tx) THEN 0 ELSE web3.status
        base == "transactionHash" :> TxHash(sender, tx["nonce"])
        created == IF Has(tx, "to") THEN base
                   ELSE Put(base, "contractAddress", ContractAddress)
    IN  IF status = NoStatus THEN created ELSE Put(created, "status", status)

(* web3.eth.getTransactionCount(address, block_identifier="pending") *)
getTransactionCount(c, address) ==
    [c |-> [Logged(c, "getTransactionCount") EXCEPT !.queried = Append(@, address)],
     count |-> c.nonces[address]]

(* Mining a transaction: the sender pays the gas used at the gasPrice of the *)
(* transaction, and unless the execution failed (status 0) the value goes    *)
(* from the sender to the receiver, which is the new contract when the       *)
(* transaction has no to.                                                    *)
Mine(b, web3, tx, sender) ==
    LET receiver == IF Has(tx, "to") THEN tx["to"] ELSE ContractAddress
        moved == IF Reverts(tx) \/ web3.status = 0 THEN 0 ELSE tx["value"]
    IN  [a \in Holders |->
            b[a]
            - (IF a = sender THEN moved + GasEstimate * tx["gasPrice"] ELSE 0)
            + (IF a = receiver THEN moved ELSE 0)]

(* The node takes a complete transaction of `sender`: it rejects a nonce that *)
(* is not the sender's transaction count; otherwise the transaction is        *)
(* pending, and mined before the caller's timeout unless web3.timeout.        *)
Submit(c, web3, request, tx, sender, signer) ==
    Bind([Logged(c, request) EXCEPT
             !.sent = Append(@, [tx |-> tx, sender |-> sender, signer |-> signer])],
         LAMBDA c1 :
        IF tx["nonce"] # c.nonces[sender]
        THEN [c |-> c1, exc |-> ValidationError, tx_hash |-> NoHash]
        ELSE [c |-> [c1 EXCEPT
                        !.nonces[sender] = @ + 1,
                        !.balances = IF web3.timeout THEN @
                                     ELSE Mine(@, web3, tx, sender),
                        !.receipts = IF web3.timeout THEN @
                                     ELSE Put(@, TxHash(sender, tx["nonce"]),
                                              MakeReceipt(web3, tx, sender))],
              exc |-> NoExc,
              tx_hash |-> TxHash(sender, tx["nonce"])])

(* web3.eth.estimateGas: executes the call, and fails when it reverts *)
estimateGas(c, tx) ==
    [c |-> Logged(c, "estimateGas"),
     exc |-> IF Reverts(tx) THEN EstimateGasError ELSE NoExc]

(* web3._utils.transactions.fill_transaction_defaults: a new dict with value, *)
(* gas and gasPrice filled in where the given one lacks them                  *)
(* Mutant: the defaults are written over what the transaction has *)
fill_transaction_defaults_overwriting(c, transaction) ==
    Bind(estimateGas(c, transaction), LAMBDA e :
         IF e.exc # NoExc
         THEN [c |-> e.c, exc |-> e.exc, d |-> transaction]
         ELSE [c |-> Logged(e.c, "gasPrice"),
               exc |-> NoExc,
               d |-> ("value" :> 0) @@ ("gas" :> GasEstimate)
                     @@ ("gasPrice" :> NodeGasPrice) @@ transaction])

(* Mutant: a field that is 0 is taken for a missing one *)
fill_transaction_defaults_replacing_zero(c, transaction) ==
    Bind([k \in {j \in DOMAIN transaction :
                    j \notin {"value", "gas", "gasPrice"} \/ transaction[j] # 0}
            |-> transaction[k]],
         LAMBDA given :
    Bind(IF Has(given, "gas") THEN [c |-> c, exc |-> NoExc]
         ELSE estimateGas(c, given),
         LAMBDA e :
         IF e.exc # NoExc
         THEN [c |-> e.c, exc |-> e.exc, d |-> transaction]
         ELSE [c |-> IF Has(given, "gasPrice") THEN e.c
                     ELSE Logged(e.c, "gasPrice"),
               exc |-> NoExc,
               d |-> given @@ ("value" :> 0) @@ ("gas" :> GasEstimate)
                           @@ ("gasPrice" :> NodeGasPrice)]))

fill_transaction_defaults(c, transaction) ==
    Bind(IF Has(transaction, "gas") THEN [c |-> c, exc |-> NoExc]
         ELSE estimateGas(c, transaction),
         LAMBDA e :
         IF e.exc # NoExc
         THEN [c |-> e.c, exc |-> e.exc, d |-> transaction]
         ELSE [c |-> IF Has(transaction, "gasPrice") THEN e.c
                     ELSE Logged(e.c, "gasPrice"),
               exc |-> NoExc,
               d |-> transaction @@ ("value" :> 0) @@ ("gas" :> GasEstimate)
                                 @@ ("gasPrice" :> NodeGasPrice)])

(* account.sign_transaction(transaction): the raw transaction and who signed *)
(* it; a local step, no request to the node                                   *)
sign_transaction(c, account, transaction) ==
    [c |-> Logged(c, "sign_transaction"),
     rawTransaction |-> transaction, signer |-> account.address]

(* web3.eth.sendRawTransaction(rawTransaction): the sender is the signer *)
sendRawTransaction(c, web3, signed) ==
    Submit(c, web3, "sendRawTransaction", signed.rawTransaction, signed.signer,
           signed.signer)

(* web3.eth.sendTransaction(transaction): the node fills what is missing *)
(* (gas by an estimate, gasPrice, nonce) and signs for the from account  *)
sendTransaction(c, web3, transaction) ==
    Bind(fill_transaction_defaults(c, transaction), LAMBDA f :
         IF f.exc # NoExc
         THEN [c |-> f.c, exc |-> f.exc, tx_hash |-> NoHash]
         ELSE Submit(f.c, web3, "sendTransaction",
                     f.d @@ ("nonce" :> c.nonces[transaction["from"]]),
                     transaction["from"], "node"))

(* function_call.buildTransaction(transaction): a new dict with to and data *)
(* of the call, and the defaults                                            *)
buildTransaction(c, function_call, transaction) ==
    LET called == IF function_call.address = NoAddress THEN transaction
                  ELSE Put(transaction, "to", function_call.address)
    IN  IF Has(transaction, "to")
        THEN [c |-> c, exc |-> ValueErrorTo, d |-> transaction]
        ELSE fill_transaction_defaults(c, Put(called, "data", function_call))

(* function_call.transact(transaction): built the same way, sent for the *)
(* node to sign                                                          *)
transact(c, web3, function_call, transaction) ==
    LET called == IF function_call.address = NoAddress THEN transaction
                  ELSE Put(transaction, "to", function_call.address)
    IN  IF Has(transaction, "to")
        THEN [c |-> c, exc |-> ValueErrorTo, tx_hash |-> NoHash]
        ELSE sendTransaction(c, web3, Put(called, "data", function_call))

(* web3.eth.waitForTransactionReceipt(tx_hash, timeout): the receipt, or *)
(* TimeExhausted for a transaction that is not mined in time             *)
waitForTransactionReceipt(c, web3, tx_hash) ==
    Bind([Logged(c, "waitForTransactionReceipt") EXCEPT !.waited = Append(@, tx_hash)],
         LAMBDA c1 :
        IF ~Has(c.receipts, tx_hash)
        THEN [c |-> c1, exc |-> TimeExhausted, receipt |-> NoReceipt]
        ELSE [c |-> c1, exc |-> NoExc, receipt |-> c.receipts[tx_hash]])

----------------------------------------------------------------------------
(* transact.py *)

(* Mutant: the count is asked for whenever from is known, and replaces a *)
(* nonce that is there                                                  *)
fill_nonce_always(c, d) ==
    IF Has(d, "from")
    THEN Bind(getTransactionCount(c, d["from"]), LAMBDA q :
              [c |-> q.c, d |-> Put(d, "nonce", q.count)])
    ELSE [c |-> c, d |-> d]

(* Mutant: a nonce below the sender's count is raised to the count *)
fill_nonce_raising_low(c, d) ==
    IF Has(d, "from") /\ (~Has(d, "nonce") \/ d["nonce"] < c.nonces[d["from"]])
    THEN Bind(getTransactionCount(c, d["from"]), LAMBDA q :
              [c |-> q.c, d |-> Put(d, "nonce", q.count)])
    ELSE [c |-> c, d |-> d]

fill_nonce(c, d) ==
    IF Has(d, "from") /\ ~Has(d, "nonce")
    THEN Bind(getTransactionCount(c, d["from"]), LAMBDA q :
              [c |-> q.c, d |-> Put(d, "nonce", q.count)])
    ELSE [c |-> c, d |-> d]

(* Mutant: the node's account is written whether or not from is there *)
set_from_address_always(c, web3, d) ==
    IF web3.defaultAccount # NoAddress
    THEN [c |-> c, d |-> Put(d, "from", web3.defaultAccount)]
    ELSE [c |-> Logged(c, "accounts"), d |-> Put(d, "from", accounts[1])]

_set_from_address(c, web3, d) ==
    IF ~Has(d, "from")
    THEN IF web3.defaultAccount # NoAddress
         THEN [c |-> c, d |-> Put(d, "from", web3.defaultAccount)]
         ELSE [c |-> Logged(c, "accounts"), d |-> Put(d, "from", accounts[1])]
    ELSE [c |-> c, d |-> d]

(* Mutant: a dict without a nonce is given one, counted from 0 *)
increase_transaction_options_nonce_defaulting(d) ==
    Put(d, "nonce", (IF Has(d, "nonce") THEN d["nonce"] ELSE 0) + 1)

increase_transaction_options_nonce(d) ==
    IF Has(d, "nonce") THEN Put(d, "nonce", d["nonce"] + 1) ELSE d

(* Mutant: from is written into the caller's dict before it is checked *)
send_transaction_writing_from_first(c, web3, options, private_key) ==
    IF private_key # NoKey
    THEN Bind(from_key(private_key), LAMBDA account :
         IF Has(options, "from") /\ options["from"] # account.address
         THEN Out(c, Put(options, "from", account.address), ValueErrorFrom, NoHash,
                  NoReceipt)
         ELSE Bind(fill_nonce(c, Put(options, "from", account.address)), LAMBDA n :
              Bind(fill_transaction_defaults(n.c, n.d), LAMBDA f :
              IF f.exc # NoExc
              THEN Out(f.c, n.d, f.exc, NoHash, NoReceipt)
              ELSE Bind(sign_transaction(f.c, account, f.d), LAMBDA signed :
                   Bind(sendRawTransaction(signed.c, web3, signed), LAMBDA s :
                        Out(s.c, n.d, s.exc, s.tx_hash, NoReceipt))))))
    ELSE Bind(_set_from_address(c, web3, options), LAMBDA a :
         Bind(sendTransaction(a.c, web3, a.d), LAMBDA s :
              Out(s.c, a.d, s.exc, s.tx_hash, NoReceipt)))

send_transaction(c, web3, options, private_key) ==
    IF private_key # NoKey
    THEN Bind(from_key(private_key), LAMBDA account :
         IF Has(options, "from") /\ options["from"] # account.address
         THEN Out(c, options, ValueErrorFrom, NoHash, NoReceipt)
         ELSE Bind(fill_nonce(c, Put(options, "from", account.address)), LAMBDA n :
              Bind(fill_transaction_defaults(n.c, n.d), LAMBDA f :
              IF f.exc # NoExc
              THEN Out(f.c, n.d, f.exc, NoHash, NoReceipt)
              ELSE Bind(sign_transaction(f.c, account, f.d), LAMBDA signed :
                   Bind(sendRawTransaction(signed.c, web3, signed), LAMBDA s :
                        Out(s.c, n.d, s.exc, s.tx_hash, NoReceipt))))))
    ELSE Bind(_set_from_address(c, web3, options), LAMBDA a :
         Bind(sendTransaction(a.c, web3, a.d), LAMBDA s :
              Out(s.c, a.d, s.exc, s.tx_hash, NoReceipt)))

(* Mutant: any receipt that has a status is taken for a success *)
receipt_with_any_status(c, web3, txid) ==
    Bind(waitForTransactionReceipt(c, web3, txid), LAMBDA w :
         IF w.exc # NoExc THEN [c |-> w.c, exc |-> w.exc, receipt |-> NoReceipt]
         ELSE IF Has(w.receipt, "status")
              THEN [c |-> w.c, exc |-> NoExc, receipt |-> w.receipt]
         ELSE [c |-> w.c, exc |-> ValueErrorStatus, receipt |-> NoReceipt])

(* Mutant: whatever is not a success is reported as a failed transaction *)
receipt_failed_unless_success(c, web3, txid) ==
    Bind(waitForTransactionReceipt(c, web3, txid), LAMBDA w :
         IF w.exc # NoExc THEN [c |-> w.c, exc |-> w.exc, receipt |-> NoReceipt]
         ELSE IF Has(w.receipt, "status") /\ w.receipt["status"] = 1
              THEN [c |-> w.c, exc |-> NoExc, receipt |-> w.receipt]
         ELSE [c |-> w.c, exc |-> TransactionFailed, receipt |-> NoReceipt])

wait_for_successful_transaction_receipt(c, web3, txid) ==
    Bind(waitForTransactionReceipt(c, web3, txid), LAMBDA w :
    Bind(IF Has(w.receipt, "status") THEN w.receipt["status"] ELSE NoStatus,
         LAMBDA status :
         IF w.exc # NoExc THEN [c |-> w.c, exc |-> w.exc, receipt |-> NoReceipt]
         ELSE IF status = 0
              THEN [c |-> w.c, exc |-> TransactionFailed, receipt |-> NoReceipt]
         ELSE IF status = 1
              THEN [c |-> w.c, exc |-> NoExc, receipt |-> w.receipt]
         ELSE [c |-> w.c, exc |-> ValueErrorStatus, receipt |-> NoReceipt]))

(* The loop of wait_for_successful_transaction_receipts over the tx_hashs left *)
RECURSIVE ReceiptsLoop(_, _, _, _)

(* Mutant: the set is assigned the failed hash instead of being added to *)
ReceiptsLoopKeepingLastFailure(c, web3, tx_hashs, failed_tx_hashs) ==
    IF tx_hashs = <<>>
    THEN [c |-> c, exc |-> NoExc, failed_tx_hashs |-> failed_tx_hashs]
    ELSE Bind(waitForTransactionReceipt(c, web3, Head(tx_hashs)), LAMBDA w :
         Bind(IF Has(w.receipt, "status") THEN w.receipt["status"] ELSE NoStatus,
              LAMBDA status :
              IF w.exc # NoExc
              THEN [c |-> w.c, exc |-> w.exc, failed_tx_hashs |-> failed_tx_hashs]
              ELSE IF status = 0
              THEN ReceiptsLoop(w.c, web3, Tail(tx_hashs), {Head(tx_hashs)})
              ELSE IF status = 1
              THEN ReceiptsLoop(w.c, web3, Tail(tx_hashs), failed_tx_hashs)
              ELSE [c |-> w.c, exc |-> ValueErrorStatus,
                    failed_tx_hashs |-> failed_tx_hashs]))

(* Mutant: a receipt whose status is neither 0 nor 1 is passed over *)
ReceiptsLoopPassingOverStatus(c, web3, tx_hashs, failed_tx_hashs) ==
    IF tx_hashs = <<>>
    THEN [c |-> c, exc |-> NoExc, failed_tx_hashs |-> failed_tx_hashs]
    ELSE Bind(waitForTransactionReceipt(c, web3, Head(tx_hashs)), LAMBDA w :
         Bind(IF Has(w.receipt, "status") THEN w.receipt["status"] ELSE NoStatus,
              LAMBDA status :
              IF w.exc # NoExc
              THEN [c |-> w.c, exc |-> w.exc, failed_tx_hashs |-> failed_tx_hashs]
              ELSE IF status = 0
              THEN ReceiptsLoop(w.c, web3, Tail(tx_hashs),
                                failed_tx_hashs \cup {Head(tx_hashs)})
              ELSE ReceiptsLoop(w.c, web3, Tail(tx_hashs), failed_tx_hashs)))

(* Mutant: the loop ends at the first failed transaction *)
ReceiptsLoopFailingFast(c, web3, tx_hashs, failed_tx_hashs) ==
    IF tx_hashs = <<>>
    THEN [c |-> c, exc |-> NoExc, failed_tx_hashs |-> failed_tx_hashs]
    ELSE Bind(waitForTransactionReceipt(c, web3, Head(tx_hashs)), LAMBDA w :
         Bind(IF Has(w.receipt, "status") THEN w.receipt["status"] ELSE NoStatus,
              LAMBDA status :
              IF w.exc # NoExc
              THEN [c |-> w.c, exc |-> w.exc, failed_tx_hashs |-> failed_tx_hashs]
              ELSE IF status = 0
              THEN [c |-> w.c, exc |-> NoExc,
                    failed_tx_hashs |-> failed_tx_hashs \cup {Head(tx_hashs)}]
              ELSE IF status = 1
              THEN ReceiptsLoop(w.c, web3, Tail(tx_hashs), failed_tx_hashs)
              ELSE [c |-> w.c, exc |-> ValueErrorStatus,
                    failed_tx_hashs |-> failed_tx_hashs]))

ReceiptsLoop(c, web3, tx_hashs, failed_tx_hashs) ==
    IF tx_hashs = <<>>
    THEN [c |-> c, exc |-> NoExc, failed_tx_hashs |-> failed_tx_hashs]
    ELSE Bind(waitForTransactionReceipt(c, web3, Head(tx_hashs)), LAMBDA w :
         Bind(IF Has(w.receipt, "status") THEN w.receipt["status"] ELSE NoStatus,
              LAMBDA status :
              IF w.exc # NoExc
              THEN [c |-> w.c, exc |-> w.exc, failed_tx_hashs |-> failed_tx_hashs]
              ELSE IF status = 0
              THEN ReceiptsLoop(w.c, web3, Tail(tx_hashs),
                                failed_tx_hashs \cup {Head(tx_hashs)})
              ELSE IF status = 1
              THEN ReceiptsLoop(w.c, web3, Tail(tx_hashs), failed_tx_hashs)
              ELSE [c |-> w.c, exc |-> ValueErrorStatus,
                    failed_tx_hashs |-> failed_tx_hashs]))

(* failed_tx_hashs of what it hands back is the attribute of the *)
(* TransactionsFailed it raises, and empty otherwise             *)
wait_for_successful_transaction_receipts(c, web3, tx_hashs) ==
    Bind(ReceiptsLoop(c, web3, tx_hashs, {}), LAMBDA r :
         IF r.exc # NoExc
         THEN [c |-> r.c, exc |-> r.exc, failed_tx_hashs |-> {}]
         ELSE IF Cardinality(r.failed_tx_hashs) # 0
         THEN [c |-> r.c, exc |-> TransactionsFailed,
               failed_tx_hashs |-> r.failed_tx_hashs]
         ELSE [c |-> r.c, exc |-> NoExc, failed_tx_hashs |-> {}])

wait_for_successful_transaction(c, web3, options, private_key) ==
    Bind(send_transaction(c, web3, options, private_key), LAMBDA s :
         IF s.exc # NoExc THEN s
         ELSE Bind(wait_for_successful_transaction_receipt(s.c, web3, s.tx_hash),
                   LAMBDA w : Out(w.c, s.opts, w.exc, NoHash, w.receipt)))

(* Mutant: the built transaction is signed before its nonce is filled in *)
build_and_sign_before_nonce(c, function_call, options, private_key) ==
    Bind(from_key(private_key), LAMBDA account :
    IF Has(options, "from") /\ options["from"] # account.address
    THEN [c |-> c, opts |-> options, exc |-> ValueErrorFrom, signed |-> NoSigned]
    ELSE Bind(Put(options, "from", account.address), LAMBDA opts :
         Bind(buildTransaction(c, function_call, opts), LAMBDA b :
         IF b.exc # NoExc
         THEN [c |-> b.c, opts |-> opts, exc |-> b.exc, signed |-> NoSigned]
         ELSE Bind(sign_transaction(b.c, account, b.d), LAMBDA signed :
              Bind(fill_nonce(signed.c, b.d), LAMBDA n :
                   [c |-> n.c, opts |-> opts, exc |-> NoExc,
                    signed |-> [signed EXCEPT !.rawTransaction = n.d]])))))

(* Mutant: the nonce is filled into the caller's dict, before the *)
(* transaction is built from it                                  *)
build_and_sign_filling_options(c, function_call, options, private_key) ==
    Bind(from_key(private_key), LAMBDA account :
    IF Has(options, "from") /\ options["from"] # account.address
    THEN [c |-> c, opts |-> options, exc |-> ValueErrorFrom, signed |-> NoSigned]
    ELSE Bind(fill_nonce(c, Put(options, "from", account.address)), LAMBDA n :
         Bind(buildTransaction(n.c, function_call, n.d), LAMBDA b :
         IF b.exc # NoExc
         THEN [c |-> b.c, opts |-> n.d, exc |-> b.exc, signed |-> NoSigned]
         ELSE Bind(sign_transaction(b.c, account, b.d), LAMBDA signed :
                   [c |-> signed.c, opts |-> n.d, exc |-> NoExc,
                    signed |-> signed]))))

(* Mutant: a from the caller has set is kept instead of being checked *)
(* against the key                                                    *)
build_and_sign_keeping_from(c, function_call, options, private_key) ==
    Bind(from_key(private_key), LAMBDA account :
    Bind(IF Has(options, "from") THEN options
         ELSE Put(options, "from", account.address), LAMBDA opts :
    Bind(buildTransaction(c, function_call, opts), LAMBDA b :
         IF b.exc # NoExc
         THEN [c |-> b.c, opts |-> opts, exc |-> b.exc, signed |-> NoSigned]
         ELSE Bind(fill_nonce(b.c, b.d), LAMBDA n :
              Bind(sign_transaction(n.c, account, n.d), LAMBDA signed :
                   [c |-> signed.c, opts |-> opts, exc |-> NoExc,
                    signed |-> signed])))))

_build_and_sign_transaction(c, function_call, options, private_key) ==
    Bind(from_key(private_key), LAMBDA account :
    IF Has(options, "from") /\ options["from"] # account.address
    THEN [c |-> c, opts |-> options, exc |-> ValueErrorFrom, signed |-> NoSigned]
    ELSE Bind(Put(options, "from", account.address), LAMBDA opts :
         Bind(buildTransaction(c, function_call, opts), LAMBDA b :
         IF b.exc # NoExc
         THEN [c |-> b.c, opts |-> opts, exc |-> b.exc, signed |-> NoSigned]
         ELSE Bind(fill_nonce(b.c, b.d), LAMBDA n :
              Bind(sign_transaction(n.c, account, n.d), LAMBDA signed :
                   [c |-> signed.c, opts |-> opts, exc |-> NoExc,
                    signed |-> signed])))))

(* Left(options, d): what the caller sees of the dict it passed: d, into which *)
(* the call has turned it, unless it passed None                              *)
Left(options, d) == IF IsNone(options) THEN options ELSE d

(* Mutant: the function works on a copy of the dict it is given, which *)
(* it leaves as it was                                                 *)
send_function_call_transaction_on_copy(c, web3, function_call, options, private_key) ==
    Bind(IF IsNone(options) THEN EmptyDict ELSE options, LAMBDA given :
    IF private_key # NoKey
    THEN Bind(_build_and_sign_transaction(c, function_call, given, private_key),
              LAMBDA b :
              IF b.exc # NoExc
              THEN Out(b.c, options, b.exc, NoHash, NoReceipt)
              ELSE Bind(sendRawTransaction(b.c, web3, b.signed), LAMBDA s :
                        Out(s.c, options, s.exc, s.tx_hash, NoReceipt)))
    ELSE Bind(_set_from_address(c, web3, given), LAMBDA a :
         Bind(fill_nonce(a.c, a.d), LAMBDA n :
         Bind(transact(n.c, web3, function_call, n.d), LAMBDA s :
              Out(s.c, options, s.exc, s.tx_hash, NoReceipt)))))

(* Mutant: the function blocks for the receipt of what it sent, as the *)
(* waiting functions do, before it returns the hash                    *)
send_function_call_transaction_waiting(c, web3, function_call, options, private_key) ==
    Bind(IF IsNone(options) THEN EmptyDict ELSE options, LAMBDA given :
    Bind(IF private_key # NoKey
         THEN Bind(_build_and_sign_transaction(c, function_call, given, private_key),
                   LAMBDA b :
                   IF b.exc # NoExc
                   THEN Out(b.c, Left(options, b.opts), b.exc, NoHash, NoReceipt)
                   ELSE Bind(sendRawTransaction(b.c, web3, b.signed), LAMBDA s :
                        Out(s.c, Left(options, b.opts), s.exc, s.tx_hash, NoReceipt)))
         ELSE Bind(_set_from_address(c, web3, given), LAMBDA a :
              Bind(fill_nonce(a.c, a.d), LAMBDA n :
              Bind(transact(n.c, web3, function_call, n.d), LAMBDA s :
                   Out(s.c, Left(options, n.d), s.exc, s.tx_hash, NoReceipt)))),
         LAMBDA o :
         IF o.exc # NoExc THEN o
         ELSE Bind(wait_for_successful_transaction_receipt(o.c, web3, o.tx_hash),
                   LAMBDA w :
                   Out(w.c, o.opts, w.exc,
                       IF w.exc = NoExc THEN o.tx_hash ELSE NoHash, NoReceipt))))

send_function_call_transaction(c, web3, function_call, options, private_key) ==
    Bind(IF IsNone(options) THEN EmptyDict ELSE options, LAMBDA given :
    IF private_key # NoKey
    THEN Bind(_build_and_sign_transaction(c, function_call, given, private_key),
              LAMBDA b :
              IF b.exc # NoExc
              THEN Out(b.c, Left(options, b.opts), b.exc, NoHash, NoReceipt)
              ELSE Bind(sendRawTransaction(b.c, web3, b.signed), LAMBDA s :
                        Out(s.c, Left(options, b.opts), s.exc, s.tx_hash, NoReceipt)))
    ELSE Bind(_set_from_address(c, web3, given), LAMBDA a :
         Bind(fill_nonce(a.c, a.d), LAMBDA n :
         Bind(transact(n.c, web3, function_call, n.d), LAMBDA s :
              Out(s.c, Left(options, n.d), s.exc, s.tx_hash, NoReceipt)))))

(* Mutant: after a wait that fails, the transaction is sent once more *)
wait_for_successful_function_call_retrying(c, web3, function_call, options, private_key) ==
    Bind(send_function_call_transaction(c, web3, function_call, options, private_key),
         LAMBDA s :
         IF s.exc # NoExc THEN s
         ELSE Bind(wait_for_successful_transaction_receipt(s.c, web3, s.tx_hash),
                   LAMBDA w :
                   IF w.exc = NoExc THEN Out(w.c, s.opts, w.exc, NoHash, w.receipt)
                   ELSE Bind(send_function_call_transaction(w.c, web3, function_call,
                                 s.opts, private_key),
                             LAMBDA again :
                             Out(again.c, again.opts, w.exc, NoHash, NoReceipt))))

wait_for_successful_function_call(c, web3, function_call, options, private_key) ==
    Bind(send_function_call_transaction(c, web3, function_call, options, private_key),
         LAMBDA s :
         IF s.exc # NoExc THEN s
         ELSE Bind(wait_for_successful_transaction_receipt(s.c, web3, s.tx_hash),
                   LAMBDA w : Out(w.c, s.opts, w.exc, NoHash, w.receipt)))

----------------------------------------------------------------------------
(* deploy.py *)

(* Mutant: the receipt is taken as the node gives it, whatever its status *)
deploy_compiled_contract_unchecked(c, web3, constuctor_call, options, private_key) ==
    Bind(send_function_call_transaction(c, web3, constuctor_call, options, private_key),
         LAMBDA s :
         IF s.exc # NoExc THEN s @@ [contract |-> NoAddress]
         ELSE Bind(waitForTransactionReceipt(s.c, web3, s.tx_hash), LAMBDA w :
              IF w.exc # NoExc
              THEN Out(w.c, s.opts, w.exc, NoHash, NoReceipt) @@ [contract |-> NoAddress]
              ELSE Out(w.c, s.opts, NoExc, NoHash, w.receipt)
                   @@ [contract |-> w.receipt["contractAddress"]]))

deploy_compiled_contract(c, web3, constuctor_call, options, private_key) ==
    Bind(wait_for_successful_function_call(c, web3, constuctor_call, options,
                                           private_key),
         LAMBDA r :
         IF r.exc # NoExc THEN r @@ [contract |-> NoAddress]
         ELSE r @@ [contract |-> r.receipt["contractAddress"]])

----------------------------------------------------------------------------
(* transact.py: the option builder.  Unset is the None of an optional number. *)

(* Mutant: an argument is tested for truth, not against None *)
build_transaction_options_truthy(gas, gas_price, nonce, value) ==
    (IF gas \notin {Unset, 0} THEN "gas" :> gas ELSE EmptyDict)
    @@ (IF gas_price \notin {Unset, 0} THEN "gasPrice" :> gas_price ELSE EmptyDict)
    @@ (IF nonce \notin {Unset, 0} THEN "nonce" :> nonce ELSE EmptyDict)
    @@ (IF value \notin {Unset, 0} THEN "value" :> value ELSE EmptyDict)

build_transaction_options(gas, gas_price, nonce, value) ==
    (IF gas # Unset THEN "gas" :> gas ELSE EmptyDict)
    @@ (IF gas_price # Unset THEN "gasPrice" :> gas_price ELSE EmptyDict)
    @@ (IF nonce # Unset THEN "nonce" :> nonce ELSE EmptyDict)
    @@ (IF value # Unset THEN "value" :> value ELSE EmptyDict)

----------------------------------------------------------------------------
(* cli.py *)

UsageErrorKeystore == "UsageError: --auto-nonce requires --keystore argument"
UsageErrorBoth == "UsageError: --nonce and --auto-nonce cannot be used at the same time"
BadArgumentUsage == "BadArgumentUsage: Contract was not found."
ValueErrorNoFunction == "ValueError: Found no function matching the name and input length."
ValueErrorMultiple == "ValueError: Found multiple function matching name and input length."

(* The compiled contracts: the test contract, and the ABI the tests use of it *)
TestContractAbi ==
    <<[type |-> "constructor", name |-> "", inputs |-> 1],
      [type |-> "function", name |-> "set", inputs |-> 1],
      [type |-> "function", name |-> "failingFunction", inputs |-> 0],
      [type |-> "function", name |-> "state", inputs |-> 0],
      [type |-> "event", name |-> "set", inputs |-> 1]>>
(* A contract with an overloaded function: two set of one input each *)
OverloadedAbi ==
    <<[type |-> "function", name |-> "set", inputs |-> 1],
      [type |-> "function", name |-> "set", inputs |-> 1],
      [type |-> "function", name |-> "failingFunction", inputs |-> 0]>>
compiled_contracts ==
    [TestContract |-> [abi |-> TestContractAbi], Overloaded |-> [abi |-> OverloadedAbi]]

(* Mutant: --nonce is not checked against --auto-nonce *)
get_nonce_unchecked_nonce(c, nonce, auto_nonce, private_key) ==
    IF auto_nonce /\ private_key = NoKey
    THEN [c |-> c, exc |-> UsageErrorKeystore, nonce |-> Unset]
    ELSE IF auto_nonce
    THEN Bind(getTransactionCount(c, from_key(private_key).address), LAMBDA q :
              [c |-> q.c, exc |-> NoExc, nonce |-> q.count])
    ELSE [c |-> c, exc |-> NoExc, nonce |-> nonce]

get_nonce(c, nonce, auto_nonce, private_key) ==
    IF auto_nonce /\ private_key = NoKey
    THEN [c |-> c, exc |-> UsageErrorKeystore, nonce |-> Unset]
    ELSE IF nonce # Unset /\ auto_nonce
    THEN [c |-> c, exc |-> UsageErrorBoth, nonce |-> Unset]
    ELSE IF auto_nonce
    THEN Bind(getTransactionCount(c, from_key(private_key).address), LAMBDA q :
              [c |-> q.c, exc |-> NoExc, nonce |-> q.count])
    ELSE [c |-> c, exc |-> NoExc, nonce |-> nonce]

(* Mutant: the candidates are chosen by name alone *)
get_contract_matching_function_by_name(contract_abi, function_name, nargs) ==
    Bind(SelectSeq(contract_abi, LAMBDA abi :
             abi.type = "function" /\ abi.name = function_name),
         LAMBDA candidates :
         IF Len(candidates) = 1 THEN [exc |-> NoExc, abi |-> candidates]
         ELSE IF Len(candidates) = 0 THEN [exc |-> ValueErrorNoFunction, abi |-> <<>>]
         ELSE [exc |-> ValueErrorMultiple, abi |-> <<>>])

get_contract_matching_function(contract_abi, function_name, nargs) ==
    Bind(SelectSeq(contract_abi, LAMBDA abi :
             abi.type = "function" /\ abi.name = function_name /\ abi.inputs = nargs),
         LAMBDA candidates :
         IF Len(candidates) = 1 THEN [exc |-> NoExc, abi |-> candidates]
         ELSE IF Len(candidates) = 0 THEN [exc |-> ValueErrorNoFunction, abi |-> <<>>]
         ELSE [exc |-> ValueErrorMultiple, abi |-> <<>>])

(* contract.functions[function_name] applied to the parsed arguments *)
ContractFunction(function_name) ==
    [name |-> function_name, reverts |-> function_name = "failingFunction",
     address |-> ContractAddress]

(* The commands' common start: the key of the keystore, get_nonce, then *)
(* build_transaction_options                                            *)
CliOptions(c, a, value) ==
    Bind(get_nonce(c, a.nonce, a.auto_nonce, a.private_key), LAMBDA n :
         IF n.exc # NoExc THEN [c |-> n.c, exc |-> n.exc, opts |-> None]
         ELSE [c |-> Logged(n.c, "build_transaction_options"), exc |-> NoExc,
               opts |-> build_transaction_options(a.gas, a.gas_price, n.nonce, value)])

deploy(c, web3, a) ==
    Bind(CliOptions(c, a, Unset), LAMBDA b :
         IF b.exc # NoExc THEN Out(b.c, b.opts, b.exc, NoHash, NoReceipt)
         ELSE IF a.contract_name \notin DOMAIN compiled_contracts
         THEN Out(b.c, b.opts, BadArgumentUsage, NoHash, NoReceipt)
         ELSE deploy_compiled_contract(b.c, web3,
                  [name |-> "constructor", reverts |-> a.reverts, address |-> NoAddress],
                  b.opts, a.private_key))

transact_command(c, web3, a) ==
    Bind(CliOptions(c, a, a.value), LAMBDA b :
         IF b.exc # NoExc THEN Out(b.c, b.opts, b.exc, NoHash, NoReceipt)
         ELSE IF a.contract_name \notin DOMAIN compiled_contracts
         THEN Out(b.c, b.opts, BadArgumentUsage, NoHash, NoReceipt)
         ELSE Bind(get_contract_matching_function(
                       compiled_contracts[a.contract_name].abi, a.function_name, a.nargs),
                   LAMBDA m :
                   IF m.exc # NoExc THEN Out(b.c, b.opts, m.exc, NoHash, NoReceipt)
                   ELSE wait_for_successful_function_call(b.c, web3,
                            ContractFunction(a.function_name), b.opts, a.private_key)))

send_eth(c, web3, a) ==
    Bind(CliOptions(c, a, a.value), LAMBDA b :
         IF b.exc # NoExc THEN Out(b.c, b.opts, b.exc, NoHash, NoReceipt)
         ELSE wait_for_successful_transaction(b.c, web3, Put(b.opts, "to", a.address),
                                              a.private_key))

(* The options of the command line that the three commands share *)
CliArgs ==
    [gas : {Unset, GasGiven}, gas_price : {Unset, GasPriceGiven},
     nonce : {Unset} \cup (0..MaxNonce), auto_nonce : BOOLEAN,
     private_key : Keys \cup {NoKey}]

----------------------------------------------------------------------------
(* The caller *)

(* args: the arguments of a call that the other fields do not hold *)
NoArgs == [none |-> TRUE]
Library(fn, function_call, private_key) ==
    [fn |-> fn, function_call |-> function_call.name, private_key |-> private_key,
     nonce |-> Unset, auto_nonce |-> FALSE, tx_hashs |-> <<>>, args |-> NoArgs]
Command(fn, function_name, a, args) ==
    [fn |-> fn, function_call |-> function_name, private_key |-> a.private_key,
     nonce |-> a.nonce, auto_nonce |-> a.auto_nonce, tx_hashs |-> <<>>, args |-> args]
Waiting(fn, tx_hashs) ==
    [fn |-> fn, function_call |-> "none", private_key |-> NoKey,
     nonce |-> Unset, auto_nonce |-> FALSE, tx_hashs |-> tx_hashs, args |-> NoArgs]
Commands == {"deploy", "transact", "send_eth"}

NoCall ==
    [fn |-> "none", function_call |-> "none", private_key |-> NoKey,
     nonce |-> Unset, auto_nonce |-> FALSE, tx_hashs |-> <<>>, args |-> NoArgs,
     options |-> None, nonces |-> [a \in Addresses |-> 0]]
(* What a call handed back: the exception raised, or what it returned (nonce *)
(* is what get_nonce returns)                                                *)
NoResult ==
    [exc |-> NoExc, tx_hash |-> NoHash, receipt |-> NoReceipt, contract |-> NoAddress,
     failed_tx_hashs |-> {}, nonce |-> Unset, error |-> NoError]

Init ==
    /\ nonces = [a \in Addresses |-> 0]
    /\ receipts = EmptyDict
    /\ balances = NoChange
    /\ transaction_options = None
    /\ call = NoCall
    /\ log = <<>>
    /\ sent = <<>>
    /\ waited = <<>>
    /\ queried = <<>>
    /\ result = NoResult
    /\ pc = "idle"

(* The call `called` has run to its end as o.  call keeps its arguments, with *)
(* the caller's dict and the node's counts as they were on entry.             *)
Finish(called, o) ==
    /\ \A a \in Addresses : o.c.nonces[a] <= MaxNonce
    /\ nonces' = o.c.nonces
    /\ receipts' = o.c.receipts
    /\ balances' = o.c.balances
    /\ transaction_options' = o.opts
    /\ call' = called @@ [options |-> transaction_options, nonces |-> nonces]
    /\ log' = o.c.log
    /\ sent' = o.c.sent
    /\ waited' = o.c.waited
    /\ queried' = o.c.queried
    /\ result' = [NoResult EXCEPT
                      !.exc = o.exc, !.tx_hash = o.tx_hash, !.receipt = o.receipt,
                      !.contract = IF Has(o, "contract") THEN o.contract ELSE NoAddress,
                      !.error = ErrorOf(o.exc, {})]
    /\ pc' = "done"

PlainTransaction == [name |-> "none", reverts |-> FALSE, address |-> NoAddress]

(* The caller writes a dict of options, or has none *)
NewOptions ==
    /\ pc = "idle"
    /\ \E d \in AllOptions \cup {None} :
        /\ d # transaction_options
        /\ transaction_options' = d
    /\ UNCHANGED <<nonces, receipts, balances, call, log, sent, waited, queried, result, pc>>

IncreaseNonce ==
    /\ pc = "idle"
    /\ ~IsNone(transaction_options)
    /\ Has(transaction_options, "nonce") => transaction_options["nonce"] < MaxNonce
    /\ transaction_options' = increase_transaction_options_nonce(transaction_options)
    /\ call' = [NoCall EXCEPT !.fn = "increase_transaction_options_nonce",
                              !.options = transaction_options, !.nonces = nonces]
    /\ pc' = "done"
    /\ UNCHANGED <<nonces, receipts, balances, log, sent, waited, queried, result>>

SendTransaction ==
    /\ pc = "idle"
    /\ ~IsNone(transaction_options)
    /\ \E web3 \in Web3s, private_key \in Keys \cup {NoKey} :
        Finish(Library("send_transaction", PlainTransaction, private_key),
               send_transaction(Ctx(nonces, receipts), web3, transaction_options,
                                private_key))

WaitForSuccessfulTransaction ==
    /\ pc = "idle"
    /\ ~IsNone(transaction_options)
    /\ \E web3 \in Web3s, private_key \in Keys \cup {NoKey} :
        Finish(Library("wait_for_successful_transaction", PlainTransaction, private_key),
               wait_for_successful_transaction(Ctx(nonces, receipts), web3,
                                               transaction_options, private_key))

SendFunctionCallTransaction ==
    /\ pc = "idle"
    /\ \E web3 \in Web3s, private_key \in Keys \cup {NoKey},
          function_call \in FunctionCalls :
        Finish(Library("send_function_call_transaction", function_call, private_key),
               send_function_call_transaction(Ctx(nonces, receipts), web3,
                   function_call, transaction_options, private_key))

WaitForSuccessfulFunctionCall ==
    /\ pc = "idle"
    /\ \E web3 \in Web3s, private_key \in Keys \cup {NoKey},
          function_call \in FunctionCalls :
        Finish(Library("wait_for_successful_function_call", function_call, private_key),
               wait_for_successful_function_call(Ctx(nonces, receipts), web3,
                   function_call, transaction_options, private_key))

DeployCompiledContract ==
    /\ pc = "idle"
    /\ \E web3 \in Web3s, private_key \in Keys \cup {NoKey},
          constuctor_call \in ConstructorCalls :
        Finish(Library("deploy_compiled_contract", constuctor_call, private_key),
               deploy_compiled_contract(Ctx(nonces, receipts), web3,
                   constuctor_call, transaction_options, private_key))

(* The commands of the command line: a process of its own, that starts *)
(* without a dict of options                                           *)
Deploy ==
    /\ pc = "idle"
    /\ IsNone(transaction_options)
    /\ \E web3 \in Web3s, args \in CliArgs, contract_name \in {"TestContract", "Missing"},
          reverts \in BOOLEAN :
        Finish(Command("deploy", "constructor", args,
                       [contract_name |-> contract_name]),
               deploy(Ctx(nonces, receipts), web3,
                      args @@ [contract_name |-> contract_name, reverts |-> reverts]))

Transact ==
    /\ pc = "idle"
    /\ IsNone(transaction_options)
    /\ \E web3 \in Web3s, args \in CliArgs,
          contract_name \in {"TestContract", "Overloaded", "Missing"},
          function_name \in {"set", "failingFunction"}, nargs \in {0, 1},
          value \in {Unset, ValueGiven} :
        Finish(Command("transact", function_name, args,
                       [contract_name |-> contract_name, nargs |-> nargs]),
               transact_command(Ctx(nonces, receipts), web3,
                   args @@ [contract_name |-> contract_name,
                            function_name |-> function_name, nargs |-> nargs,
                            value |-> value]))

SendEth ==
    /\ pc = "idle"
    /\ IsNone(transaction_options)
    /\ \E web3 \in Web3s, args \in CliArgs, value \in {0, ValueGiven} :
        Finish(Command("send_eth", "none", args, NoArgs),
               send_eth(Ctx(nonces, receipts), web3,
                        args @@ [value |-> value, address |-> accounts[2]]))

(* The call is over.  A caller of the library goes on with its dict and keeps *)
(* nothing else; a command's process ends, and its dict with it.              *)
Return ==
    /\ pc = "done"
    /\ pc' = "idle"
    /\ call' = NoCall
    /\ log' = <<>>
    /\ sent' = <<>>
    /\ waited' = <<>>
    /\ queried' = <<>>
    /\ result' = NoResult
    /\ receipts' = EmptyDict
    /\ balances' = NoChange
    /\ transaction_options' =
           IF call.fn \in Commands THEN None ELSE transaction_options
    /\ UNCHANGED nonces

Next ==
    \/ NewOptions
    \/ IncreaseNonce
    \/ SendTransaction
    \/ WaitForSuccessfulTransaction
    \/ SendFunctionCallTransaction
    \/ WaitForSuccessfulFunctionCall
    \/ DeployCompiledContract
    \/ Deploy
    \/ Transact
    \/ SendEth
    \/ Return

Spec == Init /\ [][Next]_vars

----------------------------------------------------------------------------
(* Receipt confirmation on its own: the node knows the transactions of     *)
(* BulkHashes, each mined with some receipt or still pending, and a caller *)
(* waits for some of them.                                                 *)

BulkHashes == {TxHash(accounts[1], n) : n \in 0..(MaxBulk - 1)}
BulkReceipts ==
    UNION {[mined -> {0, 1, 2, NoStatus}] : mined \in SUBSET BulkHashes}
ReceiptOf(tx_hash, status) ==
    IF status = NoStatus THEN "transactionHash" :> tx_hash
    ELSE ("transactionHash" :> tx_hash) @@ ("status" :> status)
TxHashs == UNION {[1..n -> BulkHashes] : n \in 0..MaxBulk}
PatientWeb3 == [defaultAccount |-> NoAddress, status |-> 1, timeout |-> FALSE]

InitBulk ==
    /\ nonces = [a \in Addresses |-> IF a = accounts[1] THEN MaxBulk ELSE 0]
    /\ \E statuses \in BulkReceipts :
        receipts = [h \in DOMAIN statuses |-> ReceiptOf(h, statuses[h])]
    /\ balances = NoChange
    /\ transaction_options = None
    /\ call = NoCall
    /\ log = <<>>
    /\ sent = <<>>
    /\ waited = <<>>
    /\ queried = <<>>
    /\ result = NoResult
    /\ pc = "idle"

(* A call that only waits has run to its end as o *)
FinishWait(called, o) ==
    /\ call' = called @@ [options |-> transaction_options, nonces |-> nonces]
    /\ log' = o.c.log
    /\ sent' = o.c.sent
    /\ waited' = o.c.waited
    /\ queried' = o.c.queried
    /\ result' = [NoResult EXCEPT !.exc = o.exc, !.receipt = o.receipt,
                                  !.failed_tx_hashs = o.failed_tx_hashs,
                                  !.error = ErrorOf(o.exc, o.failed_tx_hashs)]
    /\ pc' = "done"
    /\ UNCHANGED <<nonces, receipts, balances, transaction_options>>

WaitForSuccessfulTransactionReceipt ==
    /\ pc = "idle"
    /\ \E txid \in BulkHashes :
        FinishWait(Waiting("wait_for_successful_transaction_receipt", <<txid>>),
                   wait_for_successful_transaction_receipt(Ctx(nonces, receipts),
                       PatientWeb3, txid) @@ [failed_tx_hashs |-> {}])

WaitForSuccessfulTransactionReceipts ==
    /\ pc = "idle"
    /\ \E tx_hashs \in TxHashs :
        FinishWait(Waiting("wait_for_successful_transaction_receipts", tx_hashs),
                   wait_for_successful_transaction_receipts(Ctx(nonces, receipts),
                       PatientWeb3, tx_hashs) @@ [receipt |-> NoReceipt])

(* The wait is over; the node keeps its receipts *)
ReturnFromWait ==
    /\ pc = "done"
    /\ pc' = "idle"
    /\ call' = NoCall
    /\ log' = <<>>
    /\ sent' = <<>>
    /\ waited' = <<>>
    /\ queried' = <<>>
    /\ result' = NoResult
    /\ UNCHANGED <<nonces, receipts, balances, transaction_options>>

NextBulk ==
    \/ WaitForSuccessfulTransactionReceipt
    \/ WaitForSuccessfulTransactionReceipts
    \/ ReturnFromWait

SpecBulk == InitBulk /\ [][NextBulk]_vars

----------------------------------------------------------------------------
(* The functions that build and check options, each applied on its own to *)
(* arguments of every kind, against a node where the accounts have sent   *)
(* some transactions already.                                             *)

Applied(fn, args) == [NoCall EXCEPT !.fn = fn, !.args = args]

InitFunctions ==
    /\ nonces \in [Addresses -> 0..MaxNonce]
    /\ receipts = EmptyDict
    /\ balances = NoChange
    /\ transaction_options = None
    /\ call = NoCall
    /\ log = <<>>
    /\ sent = <<>>
    /\ waited = <<>>
    /\ queried = <<>>
    /\ result = NoResult
    /\ pc = "idle"

(* transaction_options = build_transaction_options(gas=.., gas_price=.., ..) *)
BuildTransactionOptions ==
    /\ pc = "idle"
    /\ \E gas \in {Unset, 0, GasGiven}, gas_price \in {Unset, 0, GasPriceGiven},
          nonce \in {Unset} \cup (0..MaxNonce), value \in {Unset, 0, ValueGiven} :
        /\ transaction_options' = build_transaction_options(gas, gas_price, nonce, value)
        /\ call' = Applied("build_transaction_options",
                           [gas |-> gas, gas_price |-> gas_price, nonce |-> nonce,
                            value |-> value])
    /\ pc' = "done"
    /\ UNCHANGED <<nonces, receipts, balances, log, sent, waited, queried, result>>

(* nonce = get_nonce(web3=.., nonce=.., auto_nonce=.., private_key=..) *)
GetNonce ==
    /\ pc = "idle"
    /\ \E nonce \in {Unset} \cup (0..MaxNonce), auto_nonce \in BOOLEAN,
          private_key \in Keys \cup {NoKey} :
        Bind(get_nonce(Ctx(nonces, receipts), nonce, auto_nonce, private_key), LAMBDA o :
             /\ call' = [NoCall EXCEPT !.fn = "get_nonce", !.nonce = nonce,
                                       !.auto_nonce = auto_nonce,
                                       !.private_key = private_key, !.nonces = nonces]
             /\ log' = o.c.log
             /\ queried' = o.c.queried
             /\ result' = [NoResult EXCEPT !.exc = o.exc, !.nonce = o.nonce,
                                           !.error = ErrorOf(o.exc, {})])
    /\ pc' = "done"
    /\ UNCHANGED <<nonces, receipts, balances, transaction_options, sent, waited>>

(* A web3 with any default account or none, whose node mines at once *)
NodeWeb3s ==
    [defaultAccount : {NoAddress} \cup Addresses, status : {1}, timeout : {FALSE}]

(* _set_from_address(web3, transaction_options) on a dict of the caller *)
SetFromAddress ==
    /\ pc = "idle"
    /\ \E web3 \in NodeWeb3s, d \in AllOptions :
        Bind(_set_from_address(Ctx(nonces, receipts), web3, d), LAMBDA o :
             /\ call' = [Applied("_set_from_address",
                                 [defaultAccount |-> web3.defaultAccount])
                         EXCEPT !.options = d, !.nonces = nonces]
             /\ transaction_options' = o.d
             /\ log' = o.c.log)
    /\ pc' = "done"
    /\ UNCHANGED <<nonces, receipts, balances, sent, waited, queried, result>>

(* send_transaction and send_function_call_transaction without a private *)
(* key, for the node to sign                                             *)
SendNodeSigned ==
    /\ pc = "idle"
    /\ \E web3 \in NodeWeb3s, d \in AllOptions, function_call \in FunctionCalls,
          fn \in {"send_transaction", "send_function_call_transaction"} :
        Bind(IF fn = "send_transaction"
             THEN send_transaction(Ctx(nonces, receipts), web3, d, NoKey)
             ELSE send_function_call_transaction(Ctx(nonces, receipts), web3,
                      function_call, d, NoKey),
             LAMBDA o :
             /\ \A a \in Addresses : o.c.nonces[a] <= MaxNonce
             /\ call' = [Applied(fn, [defaultAccount |-> web3.defaultAccount])
                         EXCEPT !.options = d, !.nonces = nonces,
                                !.function_call =
                                    IF fn = "send_transaction" THEN "none"
                                    ELSE function_call.name]
             /\ nonces' = o.c.nonces
             /\ receipts' = o.c.receipts
             /\ balances' = o.c.balances
             /\ transaction_options' = o.opts
             /\ log' = o.c.log
             /\ sent' = o.c.sent
             /\ waited' = o.c.waited
             /\ queried' = o.c.queried
             /\ result' = [NoResult EXCEPT !.exc = o.exc, !.tx_hash = o.tx_hash,
                                           !.error = ErrorOf(o.exc, {})])
    /\ pc' = "done"

(* n successive calls of increase_transaction_options_nonce on the dict d *)
RECURSIVE Increased(_, _)
Increased(d, n) ==
    IF n = 0 THEN d ELSE Increased(increase_transaction_options_nonce(d), n - 1)

IncreaseNonceRepeatedly ==
    /\ pc = "idle"
    /\ \E d \in AllOptions, n \in 1..MaxIncreases :
        /\ call' = [Applied("increase_transaction_options_nonce", [n |-> n])
                    EXCEPT !.options = d, !.nonces = nonces]
        /\ transaction_options' = Increased(d, n)
    /\ pc' = "done"
    /\ UNCHANGED <<nonces, receipts, balances, log, sent, waited, queried, result>>

(* The function of the library named fn, with or without a function call *)
Send(fn, c, web3, function_call, d, private_key) ==
    IF fn = "send_transaction" THEN send_transaction(c, web3, d, private_key)
    ELSE send_function_call_transaction(c, web3, function_call, d, private_key)

(* A caller sends with its dict d, and sends again with the same dict, *)
(* with or without increase_transaction_options_nonce in between       *)
SendAgain ==
    /\ pc = "idle"
    /\ \E web3 \in NodeWeb3s, d \in AllOptions, private_key \in Keys \cup {NoKey},
          fn \in {"send_transaction", "send_function_call_transaction"},
          function_call \in {f \in FunctionCalls : ~f.reverts}, increase \in BOOLEAN :
        Bind(Send(fn, Ctx(nonces, receipts), web3, function_call, d, private_key),
             LAMBDA first :
        Bind(Send(fn, first.c, web3, function_call,
                  IF increase THEN increase_transaction_options_nonce(first.opts)
                  ELSE first.opts,
                  private_key),
             LAMBDA o :
             /\ \A a \in Addresses : o.c.nonces[a] <= MaxNonce
             /\ call' = [Applied(fn, [increase |-> increase,
                                      first |-> [exc |-> first.exc, opts |-> first.opts,
                                                 tx_hash |-> first.tx_hash]])
                         EXCEPT !.options = d, !.nonces = nonces,
                                !.private_key = private_key,
                                !.function_call =
                                    IF fn = "send_transaction" THEN "none"
                                    ELSE function_call.name]
             /\ nonces' = o.c.nonces
             /\ receipts' = o.c.receipts
             /\ balances' = o.c.balances
             /\ transaction_options' = o.opts
             /\ log' = o.c.log
             /\ sent' = o.c.sent
             /\ waited' = o.c.waited
             /\ queried' = o.c.queried
             /\ result' = [NoResult EXCEPT !.exc = o.exc, !.tx_hash = o.tx_hash,
                                           !.error = ErrorOf(o.exc, {})]))
    /\ pc' = "done"

(* The function has returned; the caller drops what it got *)
ReturnFromFunction ==
    /\ pc = "done"
    /\ pc' = "idle"
    /\ call' = NoCall
    /\ log' = <<>>
    /\ queried' = <<>>
    /\ sent' = <<>>
    /\ waited' = <<>>
    /\ result' = NoResult
    /\ receipts' = EmptyDict
    /\ balances' = NoChange
    /\ transaction_options' = None
    /\ UNCHANGED nonces

NextFunctions ==
    \/ BuildTransactionOptions
    \/ GetNonce
    \/ SetFromAddress
    \/ SendNodeSigned
    \/ IncreaseNonceRepeatedly
    \/ SendAgain
    \/ ReturnFromFunction

SpecFunctions == InitFunctions /\ [][NextFunctions]_vars

----------------------------------------------------------------------------
(* Properties *)

Done == pc = "done"
Count(seq, x) == Cardinality({i \in DOMAIN seq : seq[i] = x})
StatusOf(receipt) == IF Has(receipt, "status") THEN receipt["status"] ELSE NoStatus
KeyAddress == from_key(call.private_key).address
LocallySigned == call.private_key # NoKey
FunctionsThatSend ==
    {"send_transaction", "wait_for_successful_transaction",
     "send_function_call_transaction", "wait_for_successful_function_call",
     "deploy_compiled_contract"}
NodeRequests ==
    {"getTransactionCount", "accounts", "estimateGas", "gasPrice",
     "sendRawTransaction", "sendTransaction", "waitForTransactionReceipt"}
(* The caller passed a from other than the address of the key it passed *)
FromConflict ==
    /\ LocallySigned
    /\ Has(call.options, "from")
    /\ call.options["from"] # KeyAddress

(* C1: every transaction that a call with a private key signs and submits has *)
(* as its from the address derived from that key, and is signed by it,        *)
(* whatever the caller's dict held on entry.                                  *)
C1_FromIsAddressOfKey ==
    LocallySigned =>
        \A i \in DOMAIN sent :
            /\ Has(sent[i].tx, "from")
            /\ sent[i].tx["from"] = KeyAddress
            /\ sent[i].signer = KeyAddress

C1_Witness ==
    /\ Done
    /\ call.fn \in {"send_transaction", "send_function_call_transaction"}
    /\ call.private_key = "K1"
    /\ ~Has(call.options, "from")
    /\ Len(sent) = 1
    /\ sent[1].tx["from"] = accounts[2]
    /\ result.exc = NoExc

(* C2: a private key together with a from that differs from the key's address *)
(* makes the sending functions raise ValueError before any request to the     *)
(* node (none for a transaction count, no build, no submission), and the      *)
(* caller's dict is as it was.                                                *)
C2_ConflictFailsBeforeNode ==
    (Done /\ call.fn \in FunctionsThatSend /\ FromConflict) =>
        /\ result.exc = ValueErrorFrom
        /\ log = <<>>
        /\ sent = <<>>
        /\ waited = <<>>
        /\ queried = <<>>
        /\ nonces = call.nonces
        /\ transaction_options = call.options

C2_Witness ==
    /\ Done
    /\ call.fn = "send_transaction"
    /\ FromConflict
    /\ Has(call.options, "nonce")
    /\ result.exc = ValueErrorFrom

(* C3: when the transaction of wait_for_successful_function_call is mined with *)
(* status 0, as that of a reverting function is, the call raises               *)
(* TransactionFailed and returns no receipt, although the submission gave a    *)
(* hash; it returns a receipt only if the receipt's status is 1.               *)
C3_RevertIsFailure ==
    (Done /\ call.fn = "wait_for_successful_function_call") =>
        /\ \A h \in DOMAIN receipts :
               StatusOf(receipts[h]) = 0 =>
                   /\ result.exc = TransactionFailed
                   /\ result.receipt = NoReceipt
        /\ (call.function_call = "failingFunction" /\ receipts # EmptyDict) =>
               result.exc = TransactionFailed
        /\ result.receipt # NoReceipt =>
               /\ result.exc = NoExc
               /\ StatusOf(result.receipt) = 1

C3_Witness ==
    /\ Done
    /\ call.fn = "wait_for_successful_function_call"
    /\ call.function_call = "failingFunction"
    /\ Len(sent) = 1
    /\ waited = <<TxHash(sent[1].sender, sent[1].tx["nonce"])>>
    /\ StatusOf(receipts[waited[1]]) = 0
    /\ result.exc = TransactionFailed

(* C4: wait_for_successful_transaction_receipt puts every receipt in exactly  *)
(* one of three classes: status 1 returns the node's receipt as it is, status *)
(* 0 raises TransactionFailed, any other status or none raises ValueError;    *)
(* and a wait that times out raises the timeout's own error.                  *)
C4_ReceiptClassification ==
    (Done /\ call.fn = "wait_for_successful_transaction_receipt") =>
        LET txid == call.tx_hashs[1]
        IN  /\ waited = <<txid>>
            /\ IF ~Has(receipts, txid)
               THEN result.exc = TimeExhausted /\ result.receipt = NoReceipt
               ELSE /\ StatusOf(receipts[txid]) = 1 =>
                        result.exc = NoExc /\ result.receipt = receipts[txid]
                    /\ StatusOf(receipts[txid]) = 0 =>
                        result.exc = TransactionFailed /\ result.receipt = NoReceipt
                    /\ StatusOf(receipts[txid]) \notin {0, 1} =>
                        result.exc = ValueErrorStatus /\ result.receipt = NoReceipt

C4_Witness ==
    /\ Done
    /\ call.fn = "wait_for_successful_transaction_receipt"
    /\ Has(receipts, call.tx_hashs[1])
    /\ ~Has(receipts[call.tx_hashs[1]], "status")
    /\ result.exc = ValueErrorStatus
    /\ \E h \in DOMAIN receipts : StatusOf(receipts[h]) = 2

InputHashes == {call.tx_hashs[i] : i \in DOMAIN call.tx_hashs}
Mined(h) == Has(receipts, h)
InputFailed == {h \in InputHashes : Mined(h) /\ StatusOf(receipts[h]) = 0}

(* C5: the TransactionsFailed that the bulk wait raises carries exactly the *)
(* input hashes whose receipt has status 0, none with status 1; it is       *)
(* raised when every receipt has status 0 or 1 and one has 0, and nothing   *)
(* is raised when every receipt has status 1.                               *)
C5_BulkReportsExactlyFailed ==
    (Done /\ call.fn = "wait_for_successful_transaction_receipts") =>
        /\ result.exc = TransactionsFailed =>
               /\ result.failed_tx_hashs = InputFailed
               /\ \A h \in InputHashes : Mined(h) /\ StatusOf(receipts[h]) \in {0, 1}
        /\ result.exc # TransactionsFailed => result.failed_tx_hashs = {}
        /\ (\A h \in InputHashes : Mined(h) /\ StatusOf(receipts[h]) = 1) =>
               result.exc = NoExc
        /\ ((\A h \in InputHashes : Mined(h) /\ StatusOf(receipts[h]) \in {0, 1})
            /\ InputFailed # {}) =>
               result.exc = TransactionsFailed

C5_Witness ==
    /\ Done
    /\ call.fn = "wait_for_successful_transaction_receipts"
    /\ result.exc = TransactionsFailed
    /\ Cardinality(result.failed_tx_hashs) = 2
    /\ Len(call.tx_hashs) = 3
    /\ StatusOf(receipts[call.tx_hashs[3]]) = 1

(* C6: the bulk wait does not stop at a failed transaction: when it raises  *)
(* TransactionsFailed it has waited for the receipt of every input hash, in *)
(* order, and it stops early only at a hash that is not mined in time or    *)
(* whose status is neither 0 nor 1.                                         *)
C6_BulkWaitsForAll ==
    (Done /\ call.fn = "wait_for_successful_transaction_receipts") =>
        /\ Len(waited) <= Len(call.tx_hashs)
        /\ waited = SubSeq(call.tx_hashs, 1, Len(waited))
        /\ result.exc = TransactionsFailed => waited = call.tx_hashs
        /\ Len(waited) < Len(call.tx_hashs) =>
               /\ Len(waited) > 0
               /\ \/ ~Mined(waited[Len(waited)])
                  \/ StatusOf(receipts[waited[Len(waited)]]) \notin {0, 1}

C6_Witness ==
    /\ Done
    /\ call.fn = "wait_for_successful_transaction_receipts"
    /\ result.exc = TransactionsFailed
    /\ Len(call.tx_hashs) = 3
    /\ StatusOf(receipts[call.tx_hashs[1]]) = 0
    /\ call.tx_hashs[2] # call.tx_hashs[1]
    /\ waited = call.tx_hashs

Sending == FunctionsThatSend \cup Commands
Blocking ==
    {"wait_for_successful_transaction", "wait_for_successful_function_call",
     "deploy_compiled_contract"} \cup Commands
(* The nonce the caller gave: --nonce of a command, the nonce of the dict of *)
(* a library call; Unset when it gave none                                   *)
ExplicitNonce ==
    IF call.fn \in Commands THEN call.nonce
    ELSE IF Has(call.options, "nonce") THEN call.options["nonce"]
    ELSE Unset
(* The account the transaction of the call is sent from *)
Sender ==
    IF LocallySigned THEN KeyAddress
    ELSE IF Has(call.options, "from") THEN call.options["from"]
    ELSE IF Count(log, "accounts") > 0 THEN accounts[1]
    ELSE accounts[2]

(* C7: from get_nonce of a command to fill_nonce of the sending functions, *)
(* the transaction count is asked for at most once, only when no nonce was *)
(* given explicitly, and then for the sender's address, whose count is the *)
(* nonce submitted; a nonce given explicitly is the nonce submitted.       *)
C7_NonceQueriedAtMostOnce ==
    (Done /\ call.fn \in Sending) =>
        /\ Len(queried) = Count(log, "getTransactionCount")
        /\ Len(queried) <= 1
        /\ Len(queried) = 1 =>
               /\ ExplicitNonce = Unset
               /\ queried[1] = Sender
               /\ \A i \in DOMAIN sent :
                      /\ sent[i].sender = queried[1]
                      /\ sent[i].tx["nonce"] = call.nonces[queried[1]]
        /\ ExplicitNonce # Unset =>
               /\ queried = <<>>
               /\ \A i \in DOMAIN sent : sent[i].tx["nonce"] = ExplicitNonce

C7_Witness ==
    /\ Done
    /\ call.fn = "transact"
    /\ call.auto_nonce
    /\ call.nonces[KeyAddress] = 1
    /\ queried = <<KeyAddress>>
    /\ Len(sent) = 1
    /\ result.exc = NoExc

(* Errors that end a call before it submits anything *)
RaisedBeforeSubmission ==
    {ValueErrorFrom, ValueErrorTo, EstimateGasError, UsageErrorKeystore, UsageErrorBoth,
     BadArgumentUsage, ValueErrorNoFunction, ValueErrorMultiple}

(* C8: a transaction with an explicit nonce is submitted once, with exactly  *)
(* that nonce; when the nonce is not the one the node accepts for the sender *)
(* the node's validation error reaches the caller, nothing is mined and      *)
(* nothing is submitted again.                                               *)
C8_WrongNonceIsRejected ==
    (Done /\ call.fn \in Sending /\ ExplicitNonce # Unset) =>
        /\ Len(sent) <= 1
        /\ result.exc \notin RaisedBeforeSubmission => Len(sent) = 1
        /\ \A i \in DOMAIN sent :
               /\ sent[i].tx["nonce"] = ExplicitNonce
               /\ ExplicitNonce # call.nonces[sent[i].sender] =>
                      /\ result.exc = ValidationError
                      /\ nonces = call.nonces
                      /\ receipts = EmptyDict
                      /\ waited = <<>>

C8_Witness ==
    /\ Done
    /\ call.fn = "wait_for_successful_function_call"
    /\ LocallySigned
    /\ ExplicitNonce = 0
    /\ call.nonces[KeyAddress] = 1
    /\ Len(sent) = 1
    /\ sent[1].tx["nonce"] = 0
    /\ result.exc = ValidationError

(* The steps of a transaction, and their place in the order of the components *)
StepRank(request) ==
    CASE request = "build_transaction_options" -> 1
      [] request = "getTransactionCount" -> 2
      [] request = "sign_transaction" -> 3
      [] request \in {"sendRawTransaction", "sendTransaction"} -> 4
      [] request = "waitForTransactionReceipt" -> 5
      [] OTHER -> 0
Steps == SelectSeq(log, LAMBDA request : StepRank(request) > 0)

(* C9 as stated: the steps of every call and command that sends are in the *)
(* order option builder, nonce resolver, signer, submitter, receipt waiter, *)
(* none of them twice.                                                      *)
C9_StepsInStatedOrder ==
    (Done /\ call.fn \in Sending) =>
        \A i, j \in DOMAIN Steps :
            i < j => StepRank(Steps[i]) < StepRank(Steps[j])

(* C9 amended: no step happens twice; the nonce is resolved and the options *)
(* are built before signing, signing precedes submission and submission the *)
(* receipt wait; the options are built before the nonce is resolved, except *)
(* in a command with --auto-nonce, which resolves the nonce first.          *)
C9_StepsInOrder ==
    (Done /\ call.fn \in Sending) =>
        \A i, j \in DOMAIN Steps :
            i < j =>
                \/ StepRank(Steps[i]) < StepRank(Steps[j])
                \/ /\ Steps[i] = "getTransactionCount"
                   /\ Steps[j] = "build_transaction_options"
                   /\ call.fn \in Commands
                   /\ call.auto_nonce

C9_Witness ==
    /\ Done
    /\ call.fn = "deploy"
    /\ Steps = <<"getTransactionCount", "build_transaction_options", "sign_transaction",
                 "sendRawTransaction", "waitForTransactionReceipt">>
    /\ result.exc = NoExc

(* C10: a blocking call submits at most one transaction and waits at most  *)
(* once, for the receipt of the transaction it submitted; whatever fails,  *)
(* nothing is submitted or waited for again.                               *)
C10_OneSubmissionOneWait ==
    (Done /\ call.fn \in Blocking) =>
        /\ Len(sent) <= 1
        /\ Len(waited) <= 1
        /\ Count(log, "sendRawTransaction") + Count(log, "sendTransaction") = Len(sent)
        /\ Count(log, "waitForTransactionReceipt") = Len(waited)
        /\ Len(waited) = 1 =>
               /\ Len(sent) = 1
               /\ waited[1] = TxHash(sent[1].sender, sent[1].tx["nonce"])
        /\ \A a \in Addresses :
               /\ nonces[a] >= call.nonces[a]
               /\ nonces[a] - call.nonces[a] <= Len(sent)

C10_Witness ==
    /\ Done
    /\ call.fn = "deploy_compiled_contract"
    /\ result.exc = TransactionFailed
    /\ Len(sent) = 1
    /\ Len(waited) = 1
    /\ nonces[sent[1].sender] = call.nonces[sent[1].sender] + 1

NonBlocking == {"send_transaction", "send_function_call_transaction"}

OptionArguments ==
    [gas |-> call.args.gas, gasPrice |-> call.args.gas_price, nonce |-> call.args.nonce,
     value |-> call.args.value]

(* C12: the dict that build_transaction_options returns has exactly the keys *)
(* among gas, gasPrice, nonce and value whose argument is not None, each     *)
(* with the argument's value; an argument 0 is kept; from, to and any other  *)
(* key are never there.                                                      *)
C12_OptionsAreTheSetArguments ==
    (Done /\ call.fn = "build_transaction_options") =>
        /\ DOMAIN transaction_options =
               {k \in DOMAIN OptionArguments : OptionArguments[k] # Unset}
        /\ \A k \in DOMAIN transaction_options :
               transaction_options[k] = OptionArguments[k]
        /\ \A k \in DOMAIN OptionArguments :
               OptionArguments[k] = 0 =>
                   Has(transaction_options, k) /\ transaction_options[k] = 0
        /\ ~Has(transaction_options, "from")
        /\ ~Has(transaction_options, "to")

C12_Witness ==
    /\ Done
    /\ call.fn = "build_transaction_options"
    /\ call.args.gas = Unset
    /\ call.args.nonce = 0
    /\ call.args.value = 0
    /\ call.args.gas_price = GasPriceGiven
    /\ DOMAIN transaction_options = {"gasPrice", "nonce", "value"}

(* The hashes a caller that has caught the error can read from it *)
HashesOf(error) ==
    IF "failed_tx_hashs" \in DOMAIN error THEN error.failed_tx_hashs
    ELSE {error.args[i] : i \in DOMAIN error.args}

(* C13: the error of a failed transaction lets the caller read the hash:   *)
(* the TransactionFailed of the wait for one transaction identifies the    *)
(* transaction waited for, and the TransactionsFailed of the bulk wait has *)
(* the hashes that failed.                                                 *)
C13_ErrorsCarryFailedHashes ==
    Done =>
        /\ (call.fn = "wait_for_successful_transaction_receipt"
            /\ result.exc = TransactionFailed) =>
               HashesOf(result.error) = {call.tx_hashs[1]}
        /\ (call.fn = "wait_for_successful_transaction_receipts"
            /\ result.exc = TransactionsFailed) =>
               HashesOf(result.error) = InputFailed

(* The options of a transfer of value without a charge for gas *)
FreeTransfer ==
    /\ Has(call.options, "to")
    /\ Has(call.options, "value")
    /\ Has(call.options, "gasPrice")
    /\ call.options["gasPrice"] = 0

(* C14: after wait_for_successful_transaction has returned the receipt of a  *)
(* transfer with gasPrice 0, the sender's balance is lower by exactly value  *)
(* and the receiver's higher by exactly value, and no other balance has      *)
(* changed; the sender is the key's account when a key is given and the      *)
(* node's account when not, and the effect is the same either way.           *)
C14_TransferMovesExactlyValue ==
    (Done /\ call.fn = "wait_for_successful_transaction" /\ FreeTransfer
          /\ result.exc = NoExc) =>
        /\ Len(sent) = 1
        /\ sent[1].sender = Sender
        /\ sent[1].signer = IF LocallySigned THEN Sender ELSE "node"
        /\ \A a \in Holders :
               balances[a] =
                   (IF a = call.options["to"] THEN call.options["value"] ELSE 0)
                   - (IF a = Sender THEN call.options["value"] ELSE 0)

C14_Witness ==
    /\ Done
    /\ call.fn = "wait_for_successful_transaction"
    /\ FreeTransfer
    /\ call.private_key = "K0"
    /\ result.exc = NoExc
    /\ balances[accounts[1]] = 0 - ValueGiven
    /\ balances[accounts[2]] = ValueGiven

C14_WitnessNodeSigned ==
    /\ Done
    /\ call.fn = "wait_for_successful_transaction"
    /\ FreeTransfer
    /\ ~LocallySigned
    /\ result.exc = NoExc
    /\ balances[accounts[1]] = 0 - ValueGiven
    /\ balances[accounts[2]] = ValueGiven

CallerFields == {"gas", "gasPrice", "nonce", "value"}

(* C15: every one of gas, gasPrice, nonce and value that the caller has set *)
(* in transaction_options has the same value in the transaction handed to   *)
(* the node and mined; building, filling defaults and signing add the       *)
(* fields that are missing and change none that is there.                   *)
C15_CallerFieldsArePreserved ==
    (Done /\ call.fn \in FunctionsThatSend /\ ~IsNone(call.options)) =>
        \A i \in DOMAIN sent :
            /\ CallerFields \subseteq DOMAIN sent[i].tx
            /\ \A k \in CallerFields \cap DOMAIN call.options :
                   sent[i].tx[k] = call.options[k]
            /\ \A k \in CallerFields \cap DOMAIN transaction_options :
                   sent[i].tx[k] = transaction_options[k]

C15_Witness ==
    /\ Done
    /\ call.fn = "wait_for_successful_function_call"
    /\ LocallySigned
    /\ DOMAIN call.options = {"gas", "gasPrice"}
    /\ call.options["gasPrice"] = GasPriceGiven
    /\ result.exc = NoExc
    /\ Has(receipts, waited[1])
    /\ sent[1].tx["gas"] = GasGiven
    /\ sent[1].tx["gasPrice"] = GasPriceGiven

(* C16: deploy_compiled_contract returns a contract only after it has waited *)
(* for the receipt of the deployment it submitted and found status 1, and    *)
(* the contract is at the contractAddress of that receipt; when the receipt  *)
(* has another status or none, it raises and returns no contract.            *)
C16_DeployReturnsMinedContract ==
    (Done /\ call.fn = "deploy_compiled_contract") =>
        /\ result.exc = NoExc =>
               /\ Len(sent) = 1
               /\ ~Has(sent[1].tx, "to")
               /\ waited = <<TxHash(sent[1].sender, sent[1].tx["nonce"])>>
               /\ Mined(waited[1])
               /\ StatusOf(receipts[waited[1]]) = 1
               /\ result.contract # NoAddress
               /\ result.contract = receipts[waited[1]]["contractAddress"]
        /\ result.exc # NoExc => result.contract = NoAddress
        /\ \A h \in DOMAIN receipts :
               StatusOf(receipts[h]) # 1 =>
                   /\ result.exc = IF StatusOf(receipts[h]) = 0 THEN TransactionFailed
                                   ELSE ValueErrorStatus
                   /\ result.contract = NoAddress

C16_Witness ==
    /\ Done
    /\ call.fn = "deploy_compiled_contract"
    /\ call.private_key = "K1"
    /\ result.exc = NoExc
    /\ result.contract = ContractAddress
    /\ StatusOf(receipts[waited[1]]) = 1

(* C17: get_nonce raises a usage error for --auto-nonce without a key, and *)
(* for --nonce together with --auto-nonce, both before any request to the  *)
(* node; otherwise it returns the pending transaction count of the key's   *)
(* address, asked for once, with --auto-nonce, and without it the nonce    *)
(* given, which may be None, and asks the node nothing.                    *)
C17_GetNonceValidates ==
    (Done /\ call.fn = "get_nonce") =>
        IF call.auto_nonce /\ call.private_key = NoKey
        THEN result.exc = UsageErrorKeystore /\ log = <<>> /\ queried = <<>>
        ELSE IF call.auto_nonce /\ call.nonce # Unset
        THEN result.exc = UsageErrorBoth /\ log = <<>> /\ queried = <<>>
        ELSE IF call.auto_nonce
        THEN /\ result.exc = NoExc
             /\ result.nonce = nonces[KeyAddress]
             /\ queried = <<KeyAddress>>
             /\ log = <<"getTransactionCount">>
        ELSE /\ result.exc = NoExc
             /\ result.nonce = call.nonce
             /\ log = <<>>
             /\ queried = <<>>

C17_Witness ==
    /\ Done
    /\ call.fn = "get_nonce"
    /\ call.auto_nonce
    /\ call.private_key = "K1"
    /\ nonces[accounts[2]] = 2
    /\ nonces[accounts[1]] = 1
    /\ result.nonce = 2

LocalValidationErrors == {BadArgumentUsage, ValueErrorNoFunction, ValueErrorMultiple}
(* The options of the command pass the checks of get_nonce *)
NonceOptionsValid ==
    /\ ~(call.auto_nonce /\ call.private_key = NoKey)
    /\ ~(call.auto_nonce /\ call.nonce # Unset)
(* The function entries of the contract's ABI with the name and the number *)
(* of inputs of the command's arguments                                    *)
Matching ==
    LET abi == compiled_contracts[call.args.contract_name].abi
    IN  {i \in DOMAIN abi :
            /\ abi[i].type = "function"
            /\ abi[i].name = call.function_call
            /\ abi[i].inputs = call.args.nargs}

(* C18: deploy and transact raise for a contract name that is not among the *)
(* compiled contracts, and transact for a function that no entry or more    *)
(* than one entry of the ABI matches in name and number of inputs; a        *)
(* command that ends so has built, signed and submitted no transaction and  *)
(* waited for none; transact goes on to its transaction only with exactly   *)
(* one matching function entry.                                             *)
C18_LocalValidationAborts ==
    (Done /\ call.fn \in {"deploy", "transact"}) =>
        /\ result.exc \in LocalValidationErrors =>
               /\ sent = <<>>
               /\ waited = <<>>
               /\ nonces = call.nonces
               /\ \A i \in DOMAIN log :
                      log[i] \in {"getTransactionCount", "build_transaction_options"}
        /\ (NonceOptionsValid /\ call.args.contract_name \notin DOMAIN compiled_contracts) =>
               result.exc = BadArgumentUsage
        /\ (NonceOptionsValid /\ call.fn = "transact"
            /\ call.args.contract_name \in DOMAIN compiled_contracts) =>
               /\ Cardinality(Matching) = 0 => result.exc = ValueErrorNoFunction
               /\ Cardinality(Matching) > 1 => result.exc = ValueErrorMultiple
               /\ Cardinality(Matching) = 1 => result.exc \notin LocalValidationErrors

C18_Witness ==
    /\ Done
    /\ call.fn = "transact"
    /\ call.args.contract_name = "Overloaded"
    /\ call.function_call = "set"
    /\ call.auto_nonce
    /\ result.exc = ValueErrorMultiple
    /\ log = <<"getTransactionCount", "build_transaction_options">>

(* A call with a private key and explicit gas whose transaction was mined *)
KeyAndGasMined ==
    /\ LocallySigned
    /\ ~IsNone(call.options)
    /\ Has(call.options, "gas")
    /\ receipts # EmptyDict

NodeAccount ==
    IF call.args.defaultAccount # NoAddress THEN call.args.defaultAccount
    ELSE accounts[1]
NodeSignedSends == {"send_transaction", "send_function_call_transaction"}

(* C20: without a private key, _set_from_address writes from only into a    *)
(* dict that has none: the default account of web3 when one is set, the     *)
(* first account of the node when not; a from that is there stays, and so   *)
(* does every other field.  The node-signed send_transaction and            *)
(* send_function_call_transaction leave from so, and send from that account.*)
C20_FromIsFilledOnlyWhenAbsent ==
    /\ (Done /\ call.fn = "_set_from_address") =>
           /\ transaction_options =
                  IF Has(call.options, "from") THEN call.options
                  ELSE Put(call.options, "from", NodeAccount)
           /\ DOMAIN transaction_options = DOMAIN call.options \cup {"from"}
           /\ \A k \in DOMAIN call.options : transaction_options[k] = call.options[k]
           /\ Has(call.options, "from") => log = <<>>
    /\ (Done /\ call.fn \in NodeSignedSends /\ call.private_key = NoKey
              /\ "defaultAccount" \in DOMAIN call.args) =>
           /\ Has(transaction_options, "from")
           /\ transaction_options["from"] =
                  IF Has(call.options, "from") THEN call.options["from"]
                  ELSE NodeAccount
           /\ \A k \in DOMAIN call.options : transaction_options[k] = call.options[k]
           /\ DOMAIN transaction_options \subseteq DOMAIN call.options \cup {"from", "nonce"}
           /\ \A i \in DOMAIN sent :
                  /\ sent[i].sender = transaction_options["from"]
                  /\ sent[i].tx["from"] = transaction_options["from"]

C20_Witness ==
    /\ Done
    /\ call.fn = "_set_from_address"
    /\ call.args.defaultAccount = accounts[2]
    /\ DOMAIN call.options = {"gas", "value"}
    /\ transaction_options["from"] = accounts[2]

(* C21: a call of increase_transaction_options_nonce adds exactly 1 to a   *)
(* nonce that is in the dict, and leaves a dict without nonce as it is,    *)
(* without a nonce; no other field changes; so after n successive calls a  *)
(* nonce k is k + n.                                                       *)
C21_NonceIncreasesByOne ==
    (Done /\ call.fn = "increase_transaction_options_nonce"
          /\ "n" \in DOMAIN call.args) =>
        /\ DOMAIN transaction_options = DOMAIN call.options
        /\ \A k \in DOMAIN call.options \ {"nonce"} :
               transaction_options[k] = call.options[k]
        /\ Has(call.options, "nonce") =>
               transaction_options["nonce"] = call.options["nonce"] + call.args.n
        /\ ~Has(call.options, "nonce") => transaction_options = call.options

C21_Witness ==
    /\ Done
    /\ call.fn = "increase_transaction_options_nonce"
    /\ call.args.n = 3
    /\ Has(call.options, "nonce")
    /\ call.options["nonce"] = 1
    /\ Has(call.options, "gasPrice")
    /\ transaction_options["nonce"] = 4

(* A caller has sent twice with one dict *)
SentAgain == Done /\ "first" \in DOMAIN call.args
NodeSignedCall == call.fn = "send_function_call_transaction" /\ ~LocallySigned
LocalSend == call.fn = "send_transaction" /\ LocallySigned

(* C22: the sending functions write into the caller's dict, and what they   *)
(* write stays: after a node-signed send_function_call_transaction or a     *)
(* locally signed send_transaction with a dict without nonce, the dict has  *)
(* the transaction count that was asked for; a second send with the same    *)
(* dict asks for no count and submits that nonce again, which the node      *)
(* rejects, unless increase_transaction_options_nonce was called on the     *)
(* dict in between, and then it submits the next nonce.                     *)
C22_ResolvedNoncePersists ==
    (SentAgain /\ (NodeSignedCall \/ LocalSend) /\ ~Has(call.options, "nonce")
               /\ call.args.first.exc = NoExc) =>
        /\ Len(sent) = 2
        /\ Has(call.args.first.opts, "nonce")
        /\ call.args.first.opts["nonce"] = call.nonces[sent[1].sender]
        /\ sent[1].tx["nonce"] = call.args.first.opts["nonce"]
        /\ queried = <<sent[1].sender>>
        /\ sent[2].sender = sent[1].sender
        /\ sent[2].tx["nonce"] =
               IF call.args.increase THEN sent[1].tx["nonce"] + 1
               ELSE sent[1].tx["nonce"]
        /\ transaction_options["nonce"] = sent[2].tx["nonce"]
        /\ result.exc = IF call.args.increase THEN NoExc ELSE ValidationError

C22_Witness ==
    /\ SentAgain
    /\ NodeSignedCall
    /\ ~Has(call.options, "nonce")
    /\ ~call.args.increase
    /\ call.args.first.exc = NoExc
    /\ queried = <<accounts[2]>>
    /\ Len(sent) = 2
    /\ sent[2].tx["nonce"] = sent[1].tx["nonce"]
    /\ result.exc = ValidationError

(* The place in the input of the first hash whose receipt has a status that *)
(* is neither 0 nor 1, or has none; 0 when there is no such receipt, or     *)
(* when a hash before it is not mined in time                               *)
OddStatus(i) == Mined(call.tx_hashs[i]) /\ StatusOf(receipts[call.tx_hashs[i]]) \notin {0, 1}
FirstOdd ==
    LET stops == {i \in DOMAIN call.tx_hashs :
                     ~Mined(call.tx_hashs[i]) \/ OddStatus(i)}
        first == IF stops = {} THEN 0
                 ELSE CHOOSE i \in stops : \A j \in stops : i <= j
    IN  IF first # 0 /\ OddStatus(first) THEN first ELSE 0

(* C23: the bulk wait raises ValueError at the first receipt whose status  *)
(* is neither 0 nor 1 or is missing: it has waited for the hashes up to    *)
(* that one and for none after it, and the failed hashes found before it   *)
(* are in no error; TransactionsFailed is not raised.                      *)
C23_BulkStopsAtOddStatus ==
    (Done /\ call.fn = "wait_for_successful_transaction_receipts") =>
        /\ FirstOdd # 0 =>
               /\ result.exc = ValueErrorStatus
               /\ waited = SubSeq(call.tx_hashs, 1, FirstOdd)
               /\ result.failed_tx_hashs = {}
               /\ "failed_tx_hashs" \notin DOMAIN result.error
               /\ result.error.args = <<ValueErrorStatus>>
        /\ result.exc = ValueErrorStatus => FirstOdd # 0

C23_Witness ==
    /\ Done
    /\ call.fn = "wait_for_successful_transaction_receipts"
    /\ Len(call.tx_hashs) = 3
    /\ FirstOdd = 2
    /\ StatusOf(receipts[call.tx_hashs[1]]) = 0
    /\ Mined(call.tx_hashs[3])
    /\ StatusOf(receipts[call.tx_hashs[3]]) = 0
    /\ call.tx_hashs[3] \notin {call.tx_hashs[1], call.tx_hashs[2]}
    /\ waited = SubSeq(call.tx_hashs, 1, 2)
    /\ result.exc = ValueErrorStatus

(* A call with a private key and a dict whose from, if any, is the key's *)
KeyAndDict == LocallySigned /\ ~IsNone(call.options) /\ ~FromConflict

(* C24: of what a locally signed send resolves, send_function_call_      *)
(* transaction leaves only from in the caller's dict, the nonce it asked *)
(* for being in the transaction it built and not in the dict, while      *)
(* send_transaction leaves from and the nonce; either way gas, gasPrice, *)
(* value and to of the caller are as they were, and nothing else is      *)
(* added.                                                                *)
C24_LocalPathsLeaveDifferentRecords ==
    /\ (Done /\ call.fn = "send_function_call_transaction" /\ KeyAndDict) =>
           /\ transaction_options = Put(call.options, "from", KeyAddress)
           /\ (result.exc = NoExc /\ ~Has(call.options, "nonce")) =>
                  /\ queried = <<KeyAddress>>
                  /\ sent[1].tx["nonce"] = call.nonces[KeyAddress]
                  /\ ~Has(transaction_options, "nonce")
    /\ (Done /\ call.fn = "send_transaction" /\ KeyAndDict) =>
           /\ transaction_options =
                  Put(Put(call.options, "from", KeyAddress), "nonce",
                      IF Has(call.options, "nonce") THEN call.options["nonce"]
                      ELSE call.nonces[KeyAddress])
           /\ ~Has(call.options, "nonce") => queried = <<KeyAddress>>
    /\ (Done /\ call.fn \in NonBlocking /\ KeyAndDict) =>
           /\ \A k \in {"gas", "gasPrice", "value", "to"} :
                  /\ Has(transaction_options, k) = Has(call.options, k)
                  /\ Has(call.options, k) => transaction_options[k] = call.options[k]
           /\ DOMAIN transaction_options \subseteq DOMAIN call.options \cup {"from", "nonce"}

C24_Witness ==
    /\ Done
    /\ call.fn = "send_function_call_transaction"
    /\ call.private_key = "K1"
    /\ DOMAIN call.options = {"gas", "value"}
    /\ call.nonces[accounts[2]] = 1
    /\ result.exc = NoExc
    /\ queried = <<accounts[2]>>
    /\ sent[1].tx["nonce"] = 1
    /\ DOMAIN transaction_options = {"gas", "value", "from"}

====
